---- MODULE Spec2Model ----
(***************************************************************************)
(* The INKO backend (src/server.py): Flask handlers over a PostgreSQL      *)
(* store.  Every handler opens its own connection, runs its statements in  *)
(* one transaction (psycopg2 opens it implicitly), and commits or rolls    *)
(* back.  The committed tables are the variables users .. notifications;   *)
(* tx[p] holds the writes of the open transaction of client p, which no    *)
(* other client sees before the commit.  One step of the model is one SQL  *)
(* statement (or the commit) of one client.                                *)
(***************************************************************************)
EXTENDS Integers, Sequences, FiniteSets, Bags, TLC

VARIABLES
    users,          \* table users: set of [id, username]
    follows,        \* table follows: bag of <<follower_id, following_id>>
    posts,          \* table posts: set of [id, user_id, created_at]
    stories,        \* table stories: set of [id, user_id, created_at, expires_at]
    story_views,    \* table story_views: bag of <<story_id, user_id>>
    likes,          \* table likes: bag of <<user_id, post_id>>
    comments,       \* table comments: set of [id, user_id, post_id]
    notifications,  \* table notifications: set of [id, user_id, from_user_id, type, post_id, read]
    seq,            \* the serial sequences of the tables (never rolled back)
    now,            \* the clock, in hours
    storage,        \* the object store: number of files uploaded
    pc,             \* pc[p]: the statement client p executes next
    req,            \* req[p]: the request client p is serving (its name alone once served)
    loc,            \* loc[p]: the handler's local variables
    tx,             \* tx[p]: the uncommitted writes of p's transaction
    conn,           \* conn[p]: number of open connections of client p
    resp,           \* resp[p]: the response to p's last request
    opsLeft,        \* requests (and clock ticks) still to happen
    hist,           \* the last completed toggle_follow calls, while nothing else ran
    scen            \* progress of the sign-up / follow / post scenario

db == <<users, follows, posts, stories, story_views, likes, comments, notifications>>
vars == <<users, follows, posts, stories, story_views, likes, comments,
          notifications, seq, now, storage, pc, req, loc, tx, conn, resp,
          opsLeft, hist, scen>>

(***************************************************************************)
(* Bounds of the model.                                                    *)
(***************************************************************************)
MaxUsers == 3       \* user ids a request may name: 1..MaxUsers
MaxPosts == 2       \* post ids a request may name: 1..MaxPosts
MaxStories == 2     \* story ids a request may name: 1..MaxStories
MaxOps == 4         \* requests and clock ticks in one behaviour of one client
MaxNotifs == 2      \* notification ids a request may name: 1..MaxNotifs
Procs == {1, 2}     \* the concurrent clients
RaceOps == Cardinality(Procs)   \* requests the concurrent clients issue together

None == 0           \* a missing request field (Python's falsy None)
UserArgs == 0 .. MaxUsers
PostArgs == 0 .. MaxPosts
StoryArgs == 0 .. MaxStories
NotifArgs == 0 .. MaxNotifs
Names == {"ann", "Ann", "bob"}

(***************************************************************************)
(* Program constants.                                                      *)
(***************************************************************************)
FeedLimit == 50
NotificationLimit == 50
StoryTTL == 24
ExploreLimit == 30

OK == 200
BadRequest == 400
Unauthorized == 401
ServerError == 500
NotFound == 404

(***************************************************************************)
(* Bags of key pairs: the tables whose rows are identified by a pair.      *)
(***************************************************************************)
BagAdd(B, e) == B (+) SetToBag({e})

BagDeleteAll(B, S) == [e \in DOMAIN B \ S |-> B[e]]

BagAddAll(B, S) == B (+) SetToBag(S)

(***************************************************************************)
(* SQL LOWER() on the usernames of the model.                              *)
(***************************************************************************)
Lower(s) == IF s = "Ann" THEN "ann" ELSE s

UserIdSet == {u.id : u \in users}
PostIdSet == {q.id : q \in posts}
StoryIdSet == {s.id : s \in stories}

(***************************************************************************)
(* Requests, responses, locals and transactions.                           *)
(***************************************************************************)
Request(op, u, t) == [op |-> op, user_id |-> u, target |-> t, name |-> ""]

NoRequest == Request("none", None, None)

Response(code) == [code |-> code, flag |-> FALSE, id |-> None, rows |-> <<>>, count |-> 0]

NoResp == Response(0)

NoLoc == [existing |-> FALSE, flag |-> FALSE, id |-> None, pre |-> FALSE, rows |-> <<>>]

EmptyTx == [ins_users |-> {}, ins_follows |-> {}, del_follows |-> {},
            ins_likes |-> {}, del_likes |-> {}, ins_posts |-> {},
            ins_stories |-> {}, ins_views |-> {}, ins_comments |-> {},
            ins_notifications |-> {}, set_read |-> {}]

Notification(id, to, from, type, post) ==
    [id |-> id, user_id |-> to, from_user_id |-> from, type |-> type,
     post_id |-> post, read |-> FALSE]

(***************************************************************************)
(* The store.  A statement reads the committed tables (READ COMMITTED) and *)
(* its writes stay in tx[p] until conn.commit().                           *)
(***************************************************************************)
\* Foreign keys of the schema: a row may only name existing users, posts, stories.
MissingUser(id) == id \notin UserIdSet

MissingPost(id) == id \notin PostIdSet

MissingStory(id) == id \notin StoryIdSet

\* The uniqueness constraint on a key pair: a second committed row is refused.
UniqueViolation(B, key) == BagIn(key, B)

\* An insert of a key waits for the open transaction that inserted or deleted
\* that key (the unique index decides only when that transaction has ended).
InsertWaits(p, ins, del, key) ==
    \E q \in Procs \ {p} : key \in tx[q][ins] \/ (del # "" /\ key \in tx[q][del])

\* A delete waits for the open transaction that holds the row's lock.
DeleteWaits(p, del, key) == \E q \in Procs \ {p} : key \in tx[q][del]

\* users.username is unique without regard to case.
UsernameTaken(name) == \E u \in users : Lower(u.username) = Lower(name)

\* conn.commit(): the writes of tx[p] become the committed rows.
Committed(p) ==
    /\ users' = users \cup tx[p].ins_users
    /\ follows' = BagAddAll(BagDeleteAll(follows, tx[p].del_follows), tx[p].ins_follows)
    /\ likes' = BagAddAll(BagDeleteAll(likes, tx[p].del_likes), tx[p].ins_likes)
    /\ posts' = posts \cup tx[p].ins_posts
    /\ stories' = stories \cup tx[p].ins_stories
    /\ story_views' = BagAddAll(story_views, tx[p].ins_views)
    /\ comments' = comments \cup tx[p].ins_comments
    /\ notifications' =
          {IF n.id \in tx[p].set_read THEN [n EXCEPT !.read = TRUE] ELSE n :
              n \in notifications} \cup tx[p].ins_notifications

(***************************************************************************)
(* Observers of the calls (history variables, no part of the program).     *)
(***************************************************************************)
Last2(s) == IF Len(s) > 2 THEN SubSeq(s, Len(s) - 1, Len(s)) ELSE s

HistStart(r) ==
    IF hist.on /\ r.op # "toggle_follow" THEN [hist EXCEPT !.calls = <<>>] ELSE hist

HistEnd(p, r) ==
    IF hist.on /\ req[p].op = "toggle_follow"
    THEN [hist EXCEPT !.calls = Last2(Append(@,
            [a |-> req[p].user_id, b |-> req[p].target, code |-> r.code,
             flag |-> r.flag, pre |-> loc[p].pre]))]
    ELSE hist

\* The scenario: user 1 signs up, user 2 signs up, 2 follows 1, 1 creates a post.
ScenExpects(k, r) ==
    \/ k \in {0, 1} /\ r.op = "signup"
    \/ k = 2 /\ r.op = "toggle_follow" /\ r.user_id = 2 /\ r.target = 1
    \/ k = 3 /\ r.op = "upload_post" /\ r.user_id = 1

ScenStart(r) == IF scen >= 0 /\ ScenExpects(scen, r) THEN scen ELSE -1

ScenEnd(p, r) ==
    IF scen >= 0 /\ r.code = OK /\ (req[p].op = "signup" => r.id = scen + 1)
    THEN scen + 1 ELSE -1

(***************************************************************************)
(* The shape shared by the handlers: validation, get_db(), the statements  *)
(* inside try, commit / rollback, and the finally that closes.             *)
(***************************************************************************)
\* A request refused by the validation, before get_db().
Refuse(p, r, code) ==
    /\ pc[p] = "idle" /\ opsLeft > 0
    /\ opsLeft' = opsLeft - 1
    /\ req' = [req EXCEPT ![p] = r]
    /\ resp' = [resp EXCEPT ![p] = Response(code)]
    /\ hist' = IF hist.on THEN [hist EXCEPT !.calls = <<>>] ELSE hist
    /\ scen' = -1
    /\ UNCHANGED <<db, seq, now, storage, pc, loc, tx, conn>>

\* A request accepted: conn = get_db(); cur = conn.cursor().
Start(p, r, label) ==
    /\ pc[p] = "idle" /\ opsLeft > 0
    /\ opsLeft' = opsLeft - 1
    /\ req' = [req EXCEPT ![p] = r]
    /\ resp' = [resp EXCEPT ![p] = NoResp]
    /\ pc' = [pc EXCEPT ![p] = label]
    /\ conn' = [conn EXCEPT ![p] = @ + 1]
    /\ hist' = HistStart(r)
    /\ scen' = ScenStart(r)
    /\ UNCHANGED <<db, seq, now, tx>>

\* One statement inside try that does not end the handler.
Step(p, from, to) ==
    /\ pc[p] = from
    /\ pc' = [pc EXCEPT ![p] = to]
    /\ UNCHANGED <<db, now, storage, req, conn, resp, opsLeft, hist, scen>>

\* (mutant) an early return inside try leaves without closing the connection
CloseUnlessReturned(p, r) ==
    /\ pc' = [pc EXCEPT ![p] = "idle"]
    /\ tx' = [tx EXCEPT ![p] = EmptyTx]
    /\ conn' = [conn EXCEPT ![p] = IF r.code = BadRequest THEN @ ELSE @ - 1]
    /\ resp' = [resp EXCEPT ![p] = r]
    /\ hist' = HistEnd(p, r)
    /\ scen' = ScenEnd(p, r)
    /\ req' = [req EXCEPT ![p] = Request(@.op, None, None)]
    /\ loc' = [loc EXCEPT ![p] = NoLoc]
    /\ UNCHANGED <<now, storage, opsLeft, seq>>

\* The finally clause: cur.close(); conn.close(); then the response.
Close(p, r) ==
    /\ pc' = [pc EXCEPT ![p] = "idle"]
    /\ tx' = [tx EXCEPT ![p] = EmptyTx]
    /\ conn' = [conn EXCEPT ![p] = @ - 1]
    /\ resp' = [resp EXCEPT ![p] = r]
    /\ hist' = HistEnd(p, r)
    /\ scen' = ScenEnd(p, r)
    /\ req' = [req EXCEPT ![p] = Request(@.op, None, None)]
    /\ loc' = [loc EXCEPT ![p] = NoLoc]
    /\ UNCHANGED <<now, storage, opsLeft, seq>>

\* conn.commit(); return jsonify(...).
Done(p, from, r) == pc[p] = from /\ Committed(p) /\ Close(p, r)

\* return inside try without a commit: the open transaction is dropped.
Return(p, from, r) == pc[p] = from /\ UNCHANGED db /\ Close(p, r)

\* (mutant) the except clause commits what the transaction has written so far
ExceptKeepsWrites(p, from) ==
    pc[p] = from /\ Committed(p) /\ Close(p, Response(ServerError))

\* except Exception: conn.rollback(); return 500.
Except(p, from) == pc[p] = from /\ UNCHANGED db /\ Close(p, Response(ServerError))

(***************************************************************************)
(* POST /api/follow                                                        *)
(***************************************************************************)
\* (mutant) the validation lets follower_id = following_id through
toggle_follow_request_self(p) ==
    \E a \in UserArgs, b \in UserArgs :
        LET r == Request("toggle_follow", a, b) IN
        IF a = None \/ b = None
        THEN Refuse(p, r, BadRequest)
        ELSE /\ Start(p, r, "tf_select")
             /\ loc' = [loc EXCEPT ![p] = [NoLoc EXCEPT !.pre = BagIn(<<a, b>>, follows)]]
             /\ UNCHANGED storage

toggle_follow_request(p) ==
    \E a \in UserArgs, b \in UserArgs :
        LET r == Request("toggle_follow", a, b) IN
        IF a = None \/ b = None \/ a = b
        THEN Refuse(p, r, BadRequest)
        ELSE /\ Start(p, r, "tf_select")
             /\ loc' = [loc EXCEPT ![p] = [NoLoc EXCEPT !.pre = BagIn(<<a, b>>, follows)]]
             /\ UNCHANGED storage

\* (mutant) the lookup misses the stored edge
toggle_follow_existing_blind(p) == FALSE

\* SELECT id FROM follows WHERE follower_id = %s AND following_id = %s
toggle_follow_existing(p) == BagIn(<<req[p].user_id, req[p].target>>, follows)

toggle_follow_select(p) ==
    /\ Step(p, "tf_select",
            IF toggle_follow_existing(p) THEN "tf_delete" ELSE "tf_insert")
    /\ loc' = [loc EXCEPT ![p].existing = toggle_follow_existing(p)]
    /\ UNCHANGED <<tx, seq>>

\* (mutant) unfollowing writes a notification of its own
toggle_follow_unfollow_notifies(p) ==
    LET key == <<req[p].user_id, req[p].target>> IN
    [tx[p] EXCEPT !.del_follows = IF BagIn(key, follows) THEN {key} ELSE {},
                  !.ins_notifications =
                      {Notification(seq.notifications + 1, key[2], key[1], "follow", None)}]

\* the writes of the unfollow branch: the edge goes, nothing else
toggle_follow_unfollow(p) ==
    LET key == <<req[p].user_id, req[p].target>> IN
    [tx[p] EXCEPT !.del_follows = IF BagIn(key, follows) THEN {key} ELSE {}]

\* DELETE FROM follows WHERE ...; followed = False
toggle_follow_delete(p) ==
    LET key == <<req[p].user_id, req[p].target>> IN
    /\ ~DeleteWaits(p, "del_follows", key)
    /\ Step(p, "tf_delete", "tf_commit")
    /\ tx' = [tx EXCEPT ![p] = toggle_follow_unfollow(p)]
    /\ loc' = [loc EXCEPT ![p].flag = FALSE]
    /\ UNCHANGED seq

\* INSERT INTO follows (follower_id, following_id) VALUES (%s, %s)
toggle_follow_insert(p) ==
    LET key == <<req[p].user_id, req[p].target>> IN
    /\ ~InsertWaits(p, "ins_follows", "del_follows", key)
    /\ IF MissingUser(key[1]) \/ MissingUser(key[2]) \/ UniqueViolation(follows, key)
       THEN Except(p, "tf_insert")
       ELSE /\ Step(p, "tf_insert", "tf_notify")
            /\ tx' = [tx EXCEPT ![p].ins_follows = {key}]
            /\ UNCHANGED <<loc, seq>>

\* (mutant) the follow is notified twice
toggle_follow_notification_twice(p) ==
    {Notification(seq.notifications + i, req[p].target, req[p].user_id, "follow", None) :
        i \in 1 .. 2}

\* INSERT INTO notifications (user_id, from_user_id, type) VALUES (%s, %s, 'follow')
toggle_follow_notification(p) ==
    {Notification(seq.notifications + 1, req[p].target, req[p].user_id, "follow", None)}

toggle_follow_notify(p) ==
    /\ Step(p, "tf_notify", "tf_commit")
    /\ tx' = [tx EXCEPT ![p].ins_notifications = toggle_follow_notification(p)]
    /\ seq' = [seq EXCEPT !.notifications = @ + Cardinality(toggle_follow_notification(p))]
    /\ loc' = [loc EXCEPT ![p].flag = TRUE]

\* conn.commit(); return jsonify({'success': True, 'followed': followed})
toggle_follow_commit(p) ==
    Done(p, "tf_commit", [Response(OK) EXCEPT !.flag = loc[p].flag])

(***************************************************************************)
(* POST /api/post/like                                                     *)
(***************************************************************************)
like_post_request(p) ==
    \E u \in UserArgs, q \in PostArgs :
        LET r == Request("like_post", u, q) IN
        IF u = None \/ q = None
        THEN Refuse(p, r, BadRequest)
        ELSE /\ Start(p, r, "lp_select")
             /\ loc' = [loc EXCEPT ![p] = [NoLoc EXCEPT !.pre = BagIn(<<u, q>>, likes)]]
             /\ UNCHANGED storage

\* SELECT id FROM likes WHERE user_id = %s AND post_id = %s
like_post_existing(p) == BagIn(<<req[p].user_id, req[p].target>>, likes)

like_post_select(p) ==
    /\ Step(p, "lp_select", IF like_post_existing(p) THEN "lp_delete" ELSE "lp_insert")
    /\ loc' = [loc EXCEPT ![p].existing = like_post_existing(p)]
    /\ UNCHANGED <<tx, seq>>

\* the writes of the unlike branch: the like goes, nothing else
like_post_unlike(p) ==
    LET key == <<req[p].user_id, req[p].target>> IN
    [tx[p] EXCEPT !.del_likes = IF BagIn(key, likes) THEN {key} ELSE {}]

\* DELETE FROM likes WHERE ...; liked = False
like_post_delete(p) ==
    LET key == <<req[p].user_id, req[p].target>> IN
    /\ ~DeleteWaits(p, "del_likes", key)
    /\ Step(p, "lp_delete", "lp_commit")
    /\ tx' = [tx EXCEPT ![p] = like_post_unlike(p)]
    /\ loc' = [loc EXCEPT ![p].flag = FALSE]
    /\ UNCHANGED seq

\* INSERT INTO likes (user_id, post_id) VALUES (%s, %s)
like_post_insert(p) ==
    LET key == <<req[p].user_id, req[p].target>> IN
    /\ ~InsertWaits(p, "ins_likes", "del_likes", key)
    /\ IF MissingUser(key[1]) \/ MissingPost(key[2]) \/ UniqueViolation(likes, key)
       THEN Except(p, "lp_insert")
       ELSE /\ Step(p, "lp_insert", "lp_notify")
            /\ tx' = [tx EXCEPT ![p].ins_likes = {key}]
            /\ UNCHANGED <<loc, seq>>

\* SELECT user_id FROM posts WHERE id = %s, then the notification for the
\* owner, if the post has one and it is not the caller.
PostOwners(post_id) == {q.user_id : q \in {x \in posts : x.id = post_id}}

\* (mutant) the owner is notified even of a like of their own
like_post_notification_self(p) ==
    {Notification(seq.notifications + 1, owner, req[p].user_id, "like", req[p].target) :
        owner \in PostOwners(req[p].target)}

like_post_notification(p) ==
    {Notification(seq.notifications + 1, owner, req[p].user_id, "like", req[p].target) :
        owner \in {o \in PostOwners(req[p].target) : o # req[p].user_id}}

like_post_notify(p) ==
    /\ Step(p, "lp_notify", "lp_commit")
    /\ tx' = [tx EXCEPT ![p].ins_notifications = like_post_notification(p)]
    /\ seq' = [seq EXCEPT !.notifications = @ + Cardinality(like_post_notification(p))]
    /\ loc' = [loc EXCEPT ![p].flag = TRUE]

\* (mutant) the answer tells what the lookup found, not the resulting state
like_post_commit_stale(p) ==
    Done(p, "lp_commit", [Response(OK) EXCEPT !.flag = loc[p].existing])

\* conn.commit(); return jsonify({'success': True, 'liked': liked})
like_post_commit(p) ==
    Done(p, "lp_commit", [Response(OK) EXCEPT !.flag = loc[p].flag])

(***************************************************************************)
(* POST /api/post/comment                                                  *)
(***************************************************************************)
add_comment_request(p) ==
    \E u \in UserArgs, q \in PostArgs, text \in BOOLEAN :
        LET r == [Request("add_comment", u, q) EXCEPT !.name = IF text THEN "text" ELSE ""] IN
        IF u = None \/ q = None \/ ~text
        THEN Refuse(p, r, BadRequest)
        ELSE /\ Start(p, r, "ac_insert")
             /\ loc' = [loc EXCEPT ![p] = NoLoc]
             /\ UNCHANGED storage

\* INSERT INTO comments (user_id, post_id, text) VALUES (...) RETURNING id, created_at
add_comment_insert(p) ==
    IF MissingUser(req[p].user_id) \/ MissingPost(req[p].target)
    THEN Except(p, "ac_insert")
    ELSE /\ Step(p, "ac_insert", "ac_notify")
         /\ tx' = [tx EXCEPT ![p].ins_comments =
                      {[id |-> seq.comments + 1, user_id |-> req[p].user_id,
                        post_id |-> req[p].target]}]
         /\ seq' = [seq EXCEPT !.comments = @ + 1]
         /\ loc' = [loc EXCEPT ![p].id = seq.comments + 1]

\* A notification that the owner also gets for a comment of their own.
add_comment_notification_self(p) ==
    {Notification(seq.notifications + 1, owner, req[p].user_id, "comment", req[p].target) :
        owner \in PostOwners(req[p].target)}

\* SELECT user_id FROM posts WHERE id = %s; if post_owner and
\* post_owner['user_id'] != user_id: INSERT INTO notifications ... 'comment'
add_comment_notification(p) ==
    {Notification(seq.notifications + 1, owner, req[p].user_id, "comment", req[p].target) :
        owner \in {o \in PostOwners(req[p].target) : o # req[p].user_id}}

add_comment_notify(p) ==
    /\ Step(p, "ac_notify", "ac_commit")
    /\ tx' = [tx EXCEPT ![p].ins_notifications = add_comment_notification(p)]
    /\ seq' = [seq EXCEPT !.notifications = @ + Cardinality(add_comment_notification(p))]
    /\ UNCHANGED loc

add_comment_commit(p) ==
    Done(p, "ac_commit", [Response(OK) EXCEPT !.id = loc[p].id])

(***************************************************************************)
(* POST /api/post/upload and POST /api/story/upload                        *)
(***************************************************************************)
\* SELECT follower_id FROM follows WHERE following_id = %s: one row per stored edge.
FollowerRows(author) ==
    UNION {{<<k[1], i>> : i \in 1 .. follows[k]} :
              k \in {e \in DOMAIN follows : e[2] = author}}

RowBefore(r1, r2) == r1[1] < r2[1] \/ (r1[1] = r2[1] /\ r1[2] < r2[2])

\* (mutant) the fan-out reaches every other user, follower or not
FanOutEveryone(author, type, post_id) ==
    {Notification(seq.notifications + u.id, u.id, author, type, post_id) :
        u \in {x \in users : x.id # author}}

\* (mutant) the fan-out reaches the author too
FanOutAuthorToo(author, type, post_id) ==
    LET rows == FollowerRows(author) \cup {<<author, 1>>} IN
    {Notification(seq.notifications + 1 + Cardinality({x \in rows : RowBefore(x, r)}),
                  r[1], author, type, post_id) : r \in rows}

\* (mutant) the fan-out is left out
FanOutNobody(author, type, post_id) == {}

\* INSERT INTO notifications (...) SELECT follower_id, %s, type, post FROM follows ...
FanOut(author, type, post_id) ==
    LET rows == FollowerRows(author) IN
    {Notification(seq.notifications + 1 + Cardinality({x \in rows : RowBefore(x, r)}),
                  r[1], author, type, post_id) : r \in rows}

\* the request of an upload; name tells whether upload_to_supabase() gave a URL
UploadRequest(op, u, file, uploaded) ==
    [Request(op, u, IF file THEN 1 ELSE None)
        EXCEPT !.name = IF u # None /\ file /\ uploaded THEN "url" ELSE ""]

\* (mutant) the handler goes on without the URL
upload_request_unchecked(p, op, label) ==
    \E u \in UserArgs, file \in BOOLEAN, uploaded \in BOOLEAN :
        LET r == UploadRequest(op, u, file, uploaded) IN
        IF u = None \/ ~file
        THEN Refuse(p, r, BadRequest)
        ELSE /\ Start(p, r, label)
             /\ storage' = storage + (IF uploaded THEN 1 ELSE 0)
             /\ loc' = [loc EXCEPT ![p] = NoLoc]

\* upload_to_supabase() runs before get_db(); it returns a URL or None.
upload_request(p, op, label) ==
    \E u \in UserArgs, file \in BOOLEAN, uploaded \in BOOLEAN :
        LET r == UploadRequest(op, u, file, uploaded) IN
        IF u = None \/ ~file
        THEN Refuse(p, r, BadRequest)
        ELSE IF ~uploaded
        THEN Refuse(p, r, ServerError)
        ELSE /\ Start(p, r, label)
             /\ storage' = storage + 1
             /\ loc' = [loc EXCEPT ![p] = NoLoc]

upload_post_request(p) == upload_request(p, "upload_post", "up_insert")

\* INSERT INTO posts (user_id, caption, media_type, media_url) VALUES (...) RETURNING ...
upload_post_insert(p) ==
    IF MissingUser(req[p].user_id)
    THEN Except(p, "up_insert")
    ELSE /\ Step(p, "up_insert", "up_fanout")
         /\ tx' = [tx EXCEPT ![p].ins_posts =
                      {[id |-> seq.posts + 1, user_id |-> req[p].user_id,
                        created_at |-> now]}]
         /\ seq' = [seq EXCEPT !.posts = @ + 1]
         /\ loc' = [loc EXCEPT ![p].id = seq.posts + 1]

upload_post_notifications(p) == FanOut(req[p].user_id, "post", loc[p].id)

upload_post_fanout(p) ==
    /\ Step(p, "up_fanout", "up_commit")
    /\ tx' = [tx EXCEPT ![p].ins_notifications = upload_post_notifications(p)]
    /\ seq' = [seq EXCEPT !.notifications = @ + Cardinality(upload_post_notifications(p))]
    /\ UNCHANGED loc

upload_post_commit(p) ==
    Done(p, "up_commit", [Response(OK) EXCEPT !.id = loc[p].id])

upload_story_request(p) == upload_request(p, "upload_story", "us_insert")

\* stories.expires_at defaults to the creation time plus 24 hours.
StoryExpiry(created_at) == created_at + StoryTTL

\* INSERT INTO stories (user_id, media_type, media_url) VALUES (...) RETURNING ...
upload_story_insert(p) ==
    IF MissingUser(req[p].user_id)
    THEN Except(p, "us_insert")
    ELSE /\ Step(p, "us_insert", "us_fanout")
         /\ tx' = [tx EXCEPT ![p].ins_stories =
                      {[id |-> seq.stories + 1, user_id |-> req[p].user_id,
                        created_at |-> now, expires_at |-> StoryExpiry(now)]}]
         /\ seq' = [seq EXCEPT !.stories = @ + 1]
         /\ loc' = [loc EXCEPT ![p].id = seq.stories + 1]

upload_story_notifications(p) == FanOut(req[p].user_id, "story", None)

upload_story_fanout(p) ==
    /\ Step(p, "us_fanout", "us_commit")
    /\ tx' = [tx EXCEPT ![p].ins_notifications = upload_story_notifications(p)]
    /\ seq' = [seq EXCEPT !.notifications = @ + Cardinality(upload_story_notifications(p))]
    /\ UNCHANGED loc

upload_story_commit(p) ==
    Done(p, "us_commit", [Response(OK) EXCEPT !.id = loc[p].id])

(***************************************************************************)
(* POST /api/story/view                                                    *)
(***************************************************************************)
add_story_view_request(p) ==
    \E u \in UserArgs, s \in StoryArgs :
        LET r == Request("add_story_view", u, s) IN
        IF u = None \/ s = None
        THEN Refuse(p, r, BadRequest)
        ELSE /\ Start(p, r, "sv_insert")
             /\ loc' = [loc EXCEPT ![p] = NoLoc]
             /\ UNCHANGED storage

\* (mutant) a plain INSERT, without ON CONFLICT DO NOTHING
add_story_view_rows_plain(p) == {<<req[p].target, req[p].user_id>>}

\* INSERT INTO story_views (story_id, user_id) VALUES (%s, %s) ON CONFLICT DO NOTHING
add_story_view_rows(p) ==
    LET key == <<req[p].target, req[p].user_id>> IN
    IF BagIn(key, story_views) THEN {} ELSE {key}

add_story_view_insert(p) ==
    LET key == <<req[p].target, req[p].user_id>> IN
    /\ ~InsertWaits(p, "ins_views", "", key)
    /\ IF \/ MissingStory(key[1]) \/ MissingUser(key[2])
          \/ (add_story_view_rows(p) # {} /\ UniqueViolation(story_views, key))
       THEN Except(p, "sv_insert")
       ELSE /\ Step(p, "sv_insert", "sv_commit")
            /\ tx' = [tx EXCEPT ![p].ins_views = add_story_view_rows(p)]
            /\ UNCHANGED <<loc, seq>>

add_story_view_commit(p) == Done(p, "sv_commit", Response(OK))

(***************************************************************************)
(* The read queries.                                                       *)
(***************************************************************************)
\* (mutant) the subquery selects the other column: the followers of u
FollowingReversed(u) == {k[1] : k \in {e \in DOMAIN follows : e[2] = u}}

\* SELECT following_id FROM follows WHERE follower_id = %s
Following(u) == {k[2] : k \in {e \in DOMAIN follows : e[1] = u}}

Take(s, n) == SubSeq(s, 1, IF Len(s) < n THEN Len(s) ELSE n)

\* ORDER BY created_at DESC (rows of one instant in the order of their ids)
Newer(x, y) == x.created_at > y.created_at \/ (x.created_at = y.created_at /\ x.id > y.id)

\* the members of the set of numbers I, largest first
Descending(I) ==
    IF I = {} THEN <<>>
    ELSE LET hi == CHOOSE m \in I : \A j \in I : j <= m
         IN  SelectSeq([k \in 1 .. hi + 1 |-> hi + 1 - k], LAMBDA j : j \in I)

RECURSIVE Flatten(_)
Flatten(ss) == IF ss = <<>> THEN <<>> ELSE Head(ss) \o Flatten(Tail(ss))

NewestFirst(S) ==
    LET ids == {q.id : q \in S}
        row == [i \in ids |-> CHOOSE q \in S : q.id = i]
        times == Descending({q.created_at : q \in S})
        at(t) == LET same == Descending({i \in ids : row[i].created_at = t})
                 IN  [j \in 1 .. Len(same) |-> row[same[j]]]
    IN  Flatten([k \in 1 .. Len(times) |-> at(times[k])])

\* ORDER BY created_at DESC of the notifications: the order of their ids
LatestFirst(S) ==
    LET ids == Descending({n.id : n \in S})
    IN  [k \in 1 .. Len(ids) |-> CHOOSE n \in S : n.id = ids[k]]

\* get_feed: posts p JOIN users u WHERE p.user_id IN (following UNION self)
\*           ORDER BY p.created_at DESC LIMIT 50
PersonalFeed(u) ==
    Take(NewestFirst({q \in posts : /\ q.user_id \in Following(u) \cup {u}
                                    /\ q.user_id \in UserIdSet}),
         FeedLimit)

\* (mutant) the subquery is not tied to the story of the row
ViewersOfAnyStory(story_id) == {k[2] : k \in DOMAIN story_views}

\* (SELECT json_agg(user_id) FROM story_views WHERE story_id = s.id)
ViewersOf(story_id) == {k[2] : k \in {e \in DOMAIN story_views : e[1] = story_id}}

\* (mutant) the expiry test lets the instant of expiry through
ActiveStoryRowsLate(v) ==
    NewestFirst({s \in stories : /\ s.user_id \in Following(v)
                                 /\ s.user_id \in UserIdSet
                                 /\ s.expires_at >= now})

\* get_stories: stories s JOIN users u WHERE s.user_id IN (following)
\*              AND s.expires_at > NOW() ORDER BY s.created_at DESC
ActiveStoryRows(v) ==
    NewestFirst({s \in stories : /\ s.user_id \in Following(v)
                                 /\ s.user_id \in UserIdSet
                                 /\ s.expires_at > now})

RECURSIVE FirstSeen(_)
FirstSeen(rows) ==
    IF rows = <<>> THEN <<>>
    ELSE LET h == Head(rows).user_id
         IN  <<h>> \o SelectSeq(FirstSeen(Tail(rows)), LAMBDA a : a # h)

\* the stories_dict loop: one group per author, in the order of the rows
StoriesForViewer(v) ==
    LET rows == ActiveStoryRows(v)
        authors == FirstSeen(rows)
        group(a) ==
            LET mine == SelectSeq(rows, LAMBDA s : s.user_id = a)
            IN  [user_id |-> a,
                 stories |-> [j \in 1 .. Len(mine) |->
                                [id |-> mine[j].id,
                                 created_at |-> mine[j].created_at,
                                 views |-> ViewersOf(mine[j].id)]]]
    IN  [i \in 1 .. Len(authors) |-> group(authors[i])]

\* get_notifications: notifications n JOIN users u ON n.from_user_id = u.id
\*                    WHERE n.user_id = %s ORDER BY n.created_at DESC LIMIT 50
NotificationsFor(u) ==
    Take(LatestFirst({n \in notifications : /\ n.user_id = u
                                            /\ n.from_user_id \in UserIdSet}),
         NotificationLimit)

\* SELECT COUNT(*) FROM notifications WHERE user_id = %s AND read = FALSE
UnreadCount(u) == Cardinality({n \in notifications : n.user_id = u /\ ~n.read})

(***************************************************************************)
(* GET /api/feed, GET /api/stories, GET /api/notifications                 *)
(***************************************************************************)
read_request(p, op, label) ==
    \E u \in UserArgs :
        LET r == Request(op, u, None) IN
        IF u = None
        THEN Refuse(p, r, Unauthorized)
        ELSE /\ Start(p, r, label)
             /\ loc' = [loc EXCEPT ![p] = NoLoc]
             /\ UNCHANGED storage

get_feed_request(p) == read_request(p, "get_feed", "gf_select")

\* (mutant) reading the feed marks the caller's notifications as read
get_feed_select_marks_read(p) ==
    /\ pc[p] = "gf_select"
    /\ notifications' = {IF n.user_id = req[p].user_id THEN [n EXCEPT !.read = TRUE] ELSE n :
                            n \in notifications}
    /\ UNCHANGED <<users, follows, posts, stories, story_views, likes, comments>>
    /\ Close(p, [Response(OK) EXCEPT !.rows = PersonalFeed(req[p].user_id)])

get_feed_select(p) ==
    Return(p, "gf_select", [Response(OK) EXCEPT !.rows = PersonalFeed(req[p].user_id)])

\* get_explore: posts p JOIN users u ORDER BY p.created_at DESC LIMIT 30
ExploreFeed == Take(NewestFirst({q \in posts : q.user_id \in UserIdSet}), ExploreLimit)

\* GET /api/explore takes no argument and has no validation.
get_explore_request(p) ==
    /\ Start(p, Request("get_explore", None, None), "ge_select")
    /\ loc' = [loc EXCEPT ![p] = NoLoc]
    /\ UNCHANGED storage

get_explore_select(p) ==
    Return(p, "ge_select", [Response(OK) EXCEPT !.rows = ExploreFeed])

get_stories_request(p) == read_request(p, "get_stories", "gs_sweep")

\* DELETE FROM stories WHERE expires_at < NOW()
Expired(s) == s.expires_at < now

\* story_views rows go with their story (ON DELETE CASCADE)
SweptViews == {k \in DOMAIN story_views : \E s \in stories : s.id = k[1] /\ Expired(s)}

\* A sweep that took the notifications of the swept stories' authors along.
get_stories_sweep_notifications(p) ==
    /\ pc[p] = "gs_sweep"
    /\ pc' = [pc EXCEPT ![p] = "gs_select"]
    /\ stories' = {s \in stories : ~Expired(s)}
    /\ story_views' = BagDeleteAll(story_views, SweptViews)
    /\ notifications' =
          {n \in notifications :
              ~\E s \in stories : Expired(s) /\ s.user_id = n.from_user_id}
    /\ UNCHANGED <<users, follows, posts, likes, comments, seq, now,
                   storage, req, loc, tx, conn, resp, opsLeft, hist, scen>>

\* the sweep and its conn.commit()
get_stories_sweep(p) ==
    /\ pc[p] = "gs_sweep"
    /\ pc' = [pc EXCEPT ![p] = "gs_select"]
    /\ stories' = {s \in stories : ~Expired(s)}
    /\ story_views' = BagDeleteAll(story_views, SweptViews)
    /\ UNCHANGED <<users, follows, posts, likes, comments, notifications, seq, now,
                   storage, req, loc, tx, conn, resp, opsLeft, hist, scen>>

get_stories_select(p) ==
    Return(p, "gs_select", [Response(OK) EXCEPT !.rows = StoriesForViewer(req[p].user_id)])

get_notifications_request(p) == read_request(p, "get_notifications", "gn_select")

get_notifications_select(p) ==
    /\ Step(p, "gn_select", "gn_count")
    /\ loc' = [loc EXCEPT ![p].rows = NotificationsFor(req[p].user_id)]
    /\ UNCHANGED <<tx, seq>>

get_notifications_count(p) ==
    Return(p, "gn_count", [Response(OK) EXCEPT !.rows = loc[p].rows,
                                               !.count = UnreadCount(req[p].user_id)])

(***************************************************************************)
(* POST /api/notification/read                                             *)
(***************************************************************************)
mark_notification_read_request(p) ==
    \E u \in UserArgs, n \in NotifArgs :
        LET r == Request("mark_notification_read", u, n) IN
        IF u = None
        THEN Refuse(p, r, Unauthorized)
        ELSE /\ Start(p, r, "mr_update")
             /\ loc' = [loc EXCEPT ![p] = NoLoc]
             /\ UNCHANGED storage

\* (mutant) the update by id does not look at the recipient
mark_notification_read_rows_any(p) ==
    IF req[p].target # None
    THEN {n.id : n \in {x \in notifications : x.id = req[p].target}}
    ELSE {n.id : n \in {x \in notifications : x.user_id = req[p].user_id}}

\* UPDATE notifications SET read = TRUE WHERE id = %s AND user_id = %s
\* UPDATE notifications SET read = TRUE WHERE user_id = %s
mark_notification_read_rows(p) ==
    IF req[p].target # None
    THEN {n.id : n \in {x \in notifications :
                           x.id = req[p].target /\ x.user_id = req[p].user_id}}
    ELSE {n.id : n \in {x \in notifications : x.user_id = req[p].user_id}}

mark_notification_read_update(p) ==
    /\ Step(p, "mr_update", "mr_commit")
    /\ tx' = [tx EXCEPT ![p].set_read = mark_notification_read_rows(p)]
    /\ UNCHANGED <<loc, seq>>

mark_notification_read_commit(p) == Done(p, "mr_commit", Response(OK))

(***************************************************************************)
(* POST /api/auth/signup                                                   *)
(***************************************************************************)
signup_request(p) ==
    \E name \in Names \cup {""}, password \in BOOLEAN :
        LET r == [Request("signup", None, IF password THEN 1 ELSE None)
                     EXCEPT !.name = name] IN
        IF name = "" \/ ~password
        THEN Refuse(p, r, BadRequest)
        ELSE /\ Start(p, r, "su_select")
             /\ loc' = [loc EXCEPT ![p] = NoLoc]
             /\ UNCHANGED storage

\* SELECT id FROM users WHERE LOWER(username) = LOWER(%s)
signup_existing(p) == \E u \in users : Lower(u.username) = Lower(req[p].name)

signup_select(p) ==
    IF signup_existing(p)
    THEN Return(p, "su_select", Response(BadRequest))
    ELSE /\ Step(p, "su_select", "su_insert")
         /\ UNCHANGED <<tx, loc, seq>>

\* The insert on a users table that had no unique index on the username.
signup_insert_unchecked(p) ==
    /\ Step(p, "su_insert", "su_commit")
    /\ tx' = [tx EXCEPT ![p].ins_users =
                 {[id |-> seq.users + 1, username |-> req[p].name]}]
    /\ seq' = [seq EXCEPT !.users = @ + 1]
    /\ loc' = [loc EXCEPT ![p].id = seq.users + 1]

\* INSERT INTO users (username, password) VALUES (%s, %s) RETURNING id, ...
signup_insert(p) ==
    /\ ~\E q \in Procs \ {p} : \E u \in tx[q].ins_users :
            Lower(u.username) = Lower(req[p].name)
    /\ IF UsernameTaken(req[p].name)
       THEN Except(p, "su_insert")
       ELSE /\ Step(p, "su_insert", "su_commit")
            /\ tx' = [tx EXCEPT ![p].ins_users =
                         {[id |-> seq.users + 1, username |-> req[p].name]}]
            /\ seq' = [seq EXCEPT !.users = @ + 1]
            /\ loc' = [loc EXCEPT ![p].id = seq.users + 1]

signup_commit(p) == Done(p, "su_commit", [Response(OK) EXCEPT !.id = loc[p].id])

(***************************************************************************)
(* The environment: time passes; a statement may fail in the store.        *)
(***************************************************************************)
Tick ==
    /\ opsLeft > 0
    /\ opsLeft' = opsLeft - 1
    /\ \E d \in {1, StoryTTL} : now' = now + d
    /\ UNCHANGED <<db, seq, storage, pc, req, loc, tx, conn, resp, hist, scen>>

\* psycopg2 raises inside try: the handler's except clause runs.
Fault(p) == pc[p] \notin {"idle", "off"} /\ Except(p, pc[p])

(***************************************************************************)
(* Initial states.                                                         *)
(***************************************************************************)
PostOwnerIn(ps, id) == (CHOOSE q \in ps : q.id = id).user_id

\* The notifications that following and liking have left behind.
InitNotifications(fs, ls, ps) ==
    {Notification(1 + Cardinality({j \in fs : RowBefore(j, k)}),
                  k[2], k[1], "follow", None) : k \in fs}
    \cup {Notification(Cardinality(fs) + 1 + Cardinality({j \in ls : RowBefore(j, k)}),
                       PostOwnerIn(ps, k[2]), k[1], "like", k[2]) : k \in ls}

InitStore(us, fs, ls, ps, ss) ==
    /\ users = us
    /\ follows = SetToBag(fs)
    /\ posts = ps
    /\ stories = ss
    /\ story_views = EmptyBag
    /\ likes = SetToBag(ls)
    /\ comments = {}
    /\ notifications = InitNotifications(fs, ls, ps)
    /\ seq = [users |-> Cardinality(us), posts |-> Cardinality(ps),
              stories |-> Cardinality(ss), comments |-> 0,
              notifications |-> Cardinality(fs) + Cardinality(ls)]
    /\ now = 0
    /\ storage = Cardinality(ps) + Cardinality(ss)

InitClients(active, ops) ==
    /\ pc = [p \in Procs |-> IF p \in active THEN "idle" ELSE "off"]
    /\ req = [p \in Procs |-> NoRequest]
    /\ loc = [p \in Procs |-> NoLoc]
    /\ tx = [p \in Procs |-> EmptyTx]
    /\ conn = [p \in Procs |-> 0]
    /\ resp = [p \in Procs |-> NoResp]
    /\ opsLeft = ops

\* After start-up: an empty store, one client.
Init ==
    /\ InitStore({}, {}, {}, {}, {})
    /\ InitClients({1}, MaxOps)
    /\ hist = [on |-> TRUE, calls |-> <<>>]
    /\ scen = 0

Follow(p) ==
    \/ toggle_follow_request(p)
    \/ toggle_follow_select(p)
    \/ toggle_follow_delete(p)
    \/ toggle_follow_insert(p)
    \/ toggle_follow_notify(p)
    \/ toggle_follow_commit(p)

Like(p) ==
    \/ like_post_request(p)
    \/ like_post_select(p)
    \/ like_post_delete(p)
    \/ like_post_insert(p)
    \/ like_post_notify(p)
    \/ like_post_commit(p)

Comment(p) ==
    \/ add_comment_request(p)
    \/ add_comment_insert(p)
    \/ add_comment_notify(p)
    \/ add_comment_commit(p)

Post(p) ==
    \/ upload_post_request(p)
    \/ upload_post_insert(p)
    \/ upload_post_fanout(p)
    \/ upload_post_commit(p)

Story(p) ==
    \/ upload_story_request(p)
    \/ upload_story_insert(p)
    \/ upload_story_fanout(p)
    \/ upload_story_commit(p)

View(p) ==
    \/ add_story_view_request(p)
    \/ add_story_view_insert(p)
    \/ add_story_view_commit(p)

Feed(p) == get_feed_request(p) \/ get_feed_select(p)

Explore(p) == get_explore_request(p) \/ get_explore_select(p)

Stories(p) ==
    \/ get_stories_request(p)
    \/ get_stories_sweep(p)
    \/ get_stories_select(p)

Notifications(p) ==
    \/ get_notifications_request(p)
    \/ get_notifications_select(p)
    \/ get_notifications_count(p)

MarkRead(p) ==
    \/ mark_notification_read_request(p)
    \/ mark_notification_read_update(p)
    \/ mark_notification_read_commit(p)

Signup(p) ==
    \/ signup_request(p)
    \/ signup_select(p)
    \/ signup_insert(p)
    \/ signup_commit(p)

\* One client, from the empty store: accounts, the follow graph, posts and
\* the two reads of the scenario.
Next ==
    \E p \in Procs :
        \/ Signup(p) \/ Follow(p) \/ Post(p) \/ Feed(p) \/ Notifications(p)

Spec == Init /\ [][Next]_vars

\* One client, from the empty store: accounts and follows, with a store that
\* may fail any statement.
NextConn == \E p \in Procs : Signup(p) \/ Follow(p) \/ Fault(p)

SpecConn == Init /\ [][NextConn]_vars

\* Two concurrent clients on a store that holds users 1 and 2 (3 is no user),
\* post 1 of user 1 and story 1 of user 1; the store may fail any statement.
InitRace ==
    /\ \E fs \in {{}, {<<2, 1>>}}, ls \in {{}, {<<2, 1>>}} :
          InitStore({[id |-> 1, username |-> "ann"], [id |-> 2, username |-> "bob"]},
                    fs, ls,
                    {[id |-> 1, user_id |-> 1, created_at |-> 0]},
                    {[id |-> 1, user_id |-> 1, created_at |-> 0,
                      expires_at |-> StoryExpiry(0)]})
    /\ InitClients(Procs, RaceOps)
    /\ hist = [on |-> FALSE, calls |-> <<>>]
    /\ scen = -1

NextRace ==
    \E p \in Procs :
        \/ Follow(p) \/ Like(p) \/ Comment(p) \/ Post(p) \/ Story(p)
        \/ Fault(p)

SpecRace == InitRace /\ [][NextRace]_vars

\* The same clients and store, the two toggles alone, and a store that does not fail.
NextToggle == \E p \in Procs : Follow(p) \/ Like(p)

SpecToggle == InitRace /\ [][NextToggle]_vars

\* The same clients and store: story views and the story feed.
NextView == \E p \in Procs : View(p) \/ Stories(p)

SpecView == InitRace /\ [][NextView]_vars

\* One client on a store in which user 1 has written FeedLimit - 1 posts.
InitFeed ==
    /\ InitStore({[id |-> 1, username |-> "ann"], [id |-> 2, username |-> "bob"]},
                 {}, {},
                 {[id |-> i, user_id |-> 1, created_at |-> 0] : i \in 1 .. FeedLimit - 1},
                 {})
    /\ InitClients({1}, MaxOps)
    /\ hist = [on |-> FALSE, calls |-> <<>>]
    /\ scen = -1

NextFeed ==
    \/ \E p \in Procs : Follow(p) \/ Post(p) \/ Feed(p)
    \/ Tick

SpecFeed == InitFeed /\ [][NextFeed]_vars

\* One client and the clock: stories, their views and the story feed.
InitStory ==
    /\ \E fs \in {{}, {<<2, 1>>}} :
          InitStore({[id |-> 1, username |-> "ann"], [id |-> 2, username |-> "bob"]},
                    fs, {}, {}, {})
    /\ InitClients({1}, MaxOps)
    /\ hist = [on |-> FALSE, calls |-> <<>>]
    /\ scen = -1

NextStory ==
    \/ \E p \in Procs : Story(p) \/ Stories(p) \/ Follow(p)
    \/ Tick

SpecStory == InitStory /\ [][NextStory]_vars

\* One client and the clock on a store with three users, of whom user 3
\* follows user 1 and perhaps user 2, and a story each of users 1 and 2.
InitViewers ==
    /\ \E fs \in {{<<3, 1>>}, {<<3, 1>>, <<3, 2>>}} :
          InitStore({[id |-> 1, username |-> "ann"], [id |-> 2, username |-> "bob"],
                     [id |-> 3, username |-> "cy"]},
                    fs, {}, {},
                    {[id |-> 1, user_id |-> 1, created_at |-> 0,
                      expires_at |-> StoryExpiry(0)],
                     [id |-> 2, user_id |-> 2, created_at |-> 0,
                      expires_at |-> StoryExpiry(0)]})
    /\ InitClients({1}, MaxOps)
    /\ hist = [on |-> FALSE, calls |-> <<>>]
    /\ scen = -1

NextViewers ==
    \/ \E p \in Procs : Story(p) \/ View(p) \/ Stories(p)
    \/ Tick

SpecViewers == InitViewers /\ [][NextViewers]_vars

\* One client on a store where users 1 and 2 follow each other, so that each
\* has a notification: follows, the notification list and marking as read.
InitNotify ==
    /\ InitStore({[id |-> 1, username |-> "ann"], [id |-> 2, username |-> "bob"]},
                 {<<1, 2>>, <<2, 1>>}, {}, {}, {})
    /\ InitClients({1}, MaxOps)
    /\ hist = [on |-> FALSE, calls |-> <<>>]
    /\ scen = -1

NextNotify == \E p \in Procs : Follow(p) \/ Notifications(p) \/ MarkRead(p)

SpecNotify == InitNotify /\ [][NextNotify]_vars

\* One client on the store of InitRace: one call after the other.
InitSolo ==
    /\ \E fs \in {{}, {<<2, 1>>}}, ls \in {{}, {<<2, 1>>}} :
          InitStore({[id |-> 1, username |-> "ann"], [id |-> 2, username |-> "bob"]},
                    fs, ls,
                    {[id |-> 1, user_id |-> 1, created_at |-> 0]},
                    {[id |-> 1, user_id |-> 1, created_at |-> 0,
                      expires_at |-> StoryExpiry(0)]})
    /\ InitClients({1}, MaxOps)
    /\ hist = [on |-> FALSE, calls |-> <<>>]
    /\ scen = -1

\* The two toggles.
NextSolo == \E p \in Procs : Follow(p) \/ Like(p)

SpecSolo == InitSolo /\ [][NextSolo]_vars

\* The two uploads.
NextUpload == \E p \in Procs : Post(p) \/ Story(p)

SpecUpload == InitSolo /\ [][NextUpload]_vars

\* One client on the store of InitSolo: posts are written and the two feeds
\* are read, and the store may fail any statement.
NextRead == \E p \in Procs : Post(p) \/ Feed(p) \/ Explore(p) \/ Fault(p)

SpecRead == InitSolo /\ [][NextRead]_vars

\* Two concurrent clients that sign up, from the empty store.
InitSignup ==
    /\ InitStore({}, {}, {}, {}, {})
    /\ InitClients(Procs, MaxOps)
    /\ hist = [on |-> FALSE, calls |-> <<>>]
    /\ scen = -1

NextSignup == \E p \in Procs : Signup(p)

SpecSignup == InitSignup /\ [][NextSignup]_vars

\* One client and the clock on a store where users 1 and 2 follow each other
\* and user 1 has a story: stories are written, swept and read, notifications
\* are marked as read, and the store may fail any statement.
InitLog ==
    /\ InitStore({[id |-> 1, username |-> "ann"], [id |-> 2, username |-> "bob"]},
                 {<<1, 2>>, <<2, 1>>}, {}, {},
                 {[id |-> 1, user_id |-> 1, created_at |-> 0,
                   expires_at |-> StoryExpiry(0)]})
    /\ InitClients({1}, MaxOps)
    /\ hist = [on |-> FALSE, calls |-> <<>>]
    /\ scen = -1

NextLog ==
    \/ \E p \in Procs : Story(p) \/ Stories(p) \/ MarkRead(p) \/ Fault(p)
    \/ Tick

SpecLog == InitLog /\ [][NextLog]_vars

\* One client on the store of InitSolo: comments, and the store may fail any
\* statement.
NextComment == \E p \in Procs : Comment(p) \/ Fault(p)

SpecComment == InitSolo /\ [][NextComment]_vars

\* Two concurrent clients on the store of InitRace that toggle follows, their
\* calls observed, and a store that does not fail.
InitLinear ==
    /\ \E fs \in {{}, {<<2, 1>>}} :
          InitStore({[id |-> 1, username |-> "ann"], [id |-> 2, username |-> "bob"]},
                    fs, {},
                    {[id |-> 1, user_id |-> 1, created_at |-> 0]},
                    {[id |-> 1, user_id |-> 1, created_at |-> 0,
                      expires_at |-> StoryExpiry(0)]})
    /\ InitClients(Procs, RaceOps)
    /\ hist = [on |-> TRUE, calls |-> <<>>]
    /\ scen = -1

NextLinear == \E p \in Procs : Follow(p)

SpecLinear == InitLinear /\ [][NextLinear]_vars

\* One client on the store of InitSolo: every call that writes a notification.
InitActors ==
    /\ \E fs \in {{}, {<<2, 1>>}}, ls \in {{}, {<<2, 1>>}} :
          InitStore({[id |-> 1, username |-> "ann"], [id |-> 2, username |-> "bob"]},
                    fs, ls,
                    {[id |-> 1, user_id |-> 1, created_at |-> 0]},
                    {[id |-> 1, user_id |-> 1, created_at |-> 0,
                      expires_at |-> StoryExpiry(0)]})
    /\ InitClients({1}, RaceOps)
    /\ hist = [on |-> FALSE, calls |-> <<>>]
    /\ scen = -1

NextActors ==
    \E p \in Procs : Follow(p) \/ Like(p) \/ Comment(p) \/ Post(p) \/ Story(p)

SpecActors == InitActors /\ [][NextActors]_vars

(***************************************************************************)
(* Properties.                                                             *)
(***************************************************************************)
IsFollowing(a, b) == BagIn(<<a, b>>, follows)

\* The two calls the history holds are toggle_follow(a, b) twice, for users
\* a # b, the first of them issued while a did not follow b.
RoundTripCalls ==
    /\ Len(hist.calls) = 2
    /\ hist.calls[1].a = hist.calls[2].a
    /\ hist.calls[1].b = hist.calls[2].b
    /\ hist.calls[1].a \in UserIdSet
    /\ hist.calls[1].b \in UserIdSet
    /\ ~hist.calls[1].pre

\* C1: from a state where a does not follow b, two consecutive toggle_follow(a, b)
\* calls with nothing in between return followed = true and then followed = false,
\* and a does not follow b afterwards.
C1_FollowRoundTrip ==
    RoundTripCalls =>
        /\ hist.calls[1].code = OK /\ hist.calls[1].flag
        /\ hist.calls[2].code = OK /\ ~hist.calls[2].flag
        /\ (pc[1] = "idle" => ~IsFollowing(hist.calls[1].a, hist.calls[1].b))

C1_Witness ==
    /\ RoundTripCalls
    /\ pc[1] = "idle"
    /\ hist.calls[2].code = OK /\ ~hist.calls[2].flag
    /\ ~IsFollowing(hist.calls[1].a, hist.calls[1].b)

PostNotificationsOf(u) ==
    SelectSeq(NotificationsFor(u), LAMBDA n : n.type = "post")

SeqRange(s) == {s[i] : i \in 1 .. Len(s)}

Ends(p) == pc[p] \notin {"idle", "off"} /\ pc'[p] = "idle"

\* Client p commits at label and answers 200 with this step.
Commits(p, labels) == pc[p] \in labels /\ pc'[p] = "idle" /\ resp'[p].code = OK

AddedNotifications == notifications' \ notifications

LikeNotifications == {n \in notifications : n.type = "like"}

Followers(author) == {k[1] : k \in {e \in DOMAIN follows : e[2] = author}}

FanOutKind(p) == IF req[p].op = "upload_post" THEN "post" ELSE "story"

FanOutLog(ns) ==
    {<<n.id, n.user_id, n.from_user_id, n.type, n.post_id>> :
        n \in {x \in ns : x.type \in {"post", "story"}}}

\* C3: the fan-out of upload_post / upload_story writes exactly one 'post' /
\* 'story' notification for each user who follows the author in the store at
\* that instant and for nobody else, the commit adds exactly these rows, and no
\* other step ever adds or removes a 'post' or 'story' notification.
C3_FanOutSnapshot ==
    [][\A p \in Procs :
          /\ (pc[p] \in {"up_fanout", "us_fanout"} /\ pc'[p] \in {"up_commit", "us_commit"}) =>
                /\ {n.user_id : n \in tx'[p].ins_notifications} = Followers(req[p].user_id)
                /\ Cardinality(tx'[p].ins_notifications) = Cardinality(Followers(req[p].user_id))
                /\ \A n \in tx'[p].ins_notifications :
                      /\ n.type = FanOutKind(p)
                      /\ n.from_user_id = req[p].user_id
                      /\ n.post_id = IF n.type = "post" THEN loc[p].id ELSE None
          /\ Commits(p, {"up_commit", "us_commit"}) =>
                /\ AddedNotifications = tx[p].ins_notifications
                /\ notifications \subseteq notifications'
          /\ (\A q \in Procs : ~Commits(q, {"up_commit", "us_commit"})) =>
                FanOutLog(notifications') = FanOutLog(notifications)]_vars

\* A post written in this behaviour whose fan-out reached the one follower.
C3_Witness ==
    /\ \E q \in posts : q.id = 2 /\ q.user_id = 1
    /\ \A p \in Procs : pc[p] = "idle"
    /\ Cardinality({n \in notifications : n.type = "post" /\ n.post_id = 2}) = 1
    /\ \E n \in notifications : n.type = "post" /\ n.post_id = 2 /\ n.user_id = 2

\* C4: an unfollow or unlike (a toggle that answers false) leaves the table of
\* notifications as it was.
C4_UntoggleKeepsNotifications ==
    [][\A p \in Procs :
          (Commits(p, {"tf_commit", "lp_commit"}) /\ ~resp'[p].flag) =>
              notifications' = notifications]_vars

C4_Witness ==
    \E p \in Procs :
        /\ pc[p] = "idle" /\ req[p].op = "toggle_follow"
        /\ resp[p].code = OK /\ ~resp[p].flag
        /\ ~IsFollowing(2, 1)
        /\ \E n \in notifications :
              n.type = "follow" /\ n.user_id = 1 /\ n.from_user_id = 2

Candidates(u) == {q \in posts : q.user_id = u \/ IsFollowing(u, q.user_id)}

VisibleStoryIds(v) ==
    UNION {{st.id : st \in SeqRange(g.stories)} : g \in SeqRange(StoriesForViewer(v))}

\* C6: a story expires 24 hours after its creation, and a follower of its
\* author is shown it exactly while now < expires-at.  Nobody is shown a story
\* at or after its expiry; the clock never goes back, a stored story keeps its
\* expiry and the id of a removed story never comes back: so a story that has
\* expired is not shown to anybody in any later state.
C6_StoryLifetime ==
    /\ [](/\ \A s \in stories :
                /\ s.expires_at = s.created_at + StoryTTL
                /\ \A t \in stories : t.id = s.id => t = s
          /\ \A v \in UserIdSet :
                LET shown == VisibleStoryIds(v)
                IN  /\ \A s \in stories :
                          IsFollowing(v, s.user_id) =>
                              (s.id \in shown <=> now < s.expires_at)
                    /\ \A id \in shown :
                          \E s \in stories : s.id = id /\ now < s.expires_at)
    /\ [][/\ now' >= now
          /\ \A s \in stories : \A t \in stories' : t.id = s.id => t = s
          /\ \A id \in 1 .. seq.stories :
                (/\ id \notin StoryIdSet
                 /\ \A p \in Procs : \A st \in tx[p].ins_stories : st.id # id) =>
                    id \notin StoryIdSet']_vars

\* 25 hours after its creation a story is still stored and a follower does not see it.
C6_Witness ==
    \E s \in stories : \E v \in UserIdSet :
        /\ IsFollowing(v, s.user_id)
        /\ now = s.created_at + StoryTTL + 1
        /\ s.id \notin VisibleStoryIds(v)

\* C7: story_views never holds two rows for one (story, viewer) pair, and every
\* add_story_view call for a stored story and user answers 200, leaving exactly
\* one row for the pair.
C7_StoryViewIdempotent ==
    /\ [](\A k \in DOMAIN story_views : story_views[k] = 1)
    /\ [][\A p \in Procs :
             (/\ Ends(p) /\ req[p].op = "add_story_view"
              /\ ~MissingStory(req[p].target) /\ ~MissingUser(req[p].user_id)) =>
                 /\ resp'[p].code = OK
                 /\ CopiesIn(<<req[p].target, req[p].user_id>>, story_views') = 1]_vars

\* Both clients have recorded a view with success and one row is stored.
C7_Witness ==
    /\ \A p \in Procs :
          pc[p] = "idle" /\ req[p].op = "add_story_view" /\ resp[p].code = OK
    /\ Cardinality(DOMAIN story_views) = 1
    /\ \A k \in DOMAIN story_views : story_views[k] = 1

CommitLabels == {"tf_commit", "lp_commit", "ac_commit", "up_commit", "us_commit"}

NotificationsOf(type, from, post) ==
    {n \in notifications : n.type = type /\ n.from_user_id = from /\ n.post_id = post}

\* In the committed store no row stands without the rows written with it.
AllOrNothing ==
    /\ \A k \in DOMAIN follows :
          \E n \in NotificationsOf("follow", k[1], None) : n.user_id = k[2]
    /\ \A k \in DOMAIN likes :
          PostOwnerIn(posts, k[2]) # k[1] => NotificationsOf("like", k[1], k[2]) # {}
    /\ \A c \in comments :
          PostOwnerIn(posts, c.post_id) # c.user_id =>
              Cardinality(NotificationsOf("comment", c.user_id, c.post_id)) =
              Cardinality({d \in comments : d.user_id = c.user_id /\ d.post_id = c.post_id})
    /\ \A n \in notifications :
          /\ n.type = "post" => \E q \in posts : q.id = n.post_id /\ q.user_id = n.from_user_id
          /\ n.type = "story" => \E st \in stories : st.user_id = n.from_user_id
          /\ n.type = "comment" =>
                \E c \in comments : c.user_id = n.from_user_id /\ c.post_id = n.post_id

\* No write of an open transaction is in the committed store.
NothingUncommitted ==
    \A p \in Procs :
        /\ tx[p].ins_posts \cap posts = {}
        /\ tx[p].ins_stories \cap stories = {}
        /\ tx[p].ins_comments \cap comments = {}
        /\ tx[p].ins_notifications \cap notifications = {}
        /\ \A k \in tx[p].ins_follows : ~BagIn(k, follows)
        /\ \A k \in tx[p].ins_likes : ~BagIn(k, likes)

\* C9: the committed store changes only by the commit of one request, which
\* then adds all the writes of that request at once; a request that fails
\* leaves the store as it was; and the committed store never holds a row
\* without the rows written with it.
C9_AllOrNothing ==
    /\ [](AllOrNothing /\ NothingUncommitted)
    /\ [][/\ db' # db => \E p \in Procs : Commits(p, CommitLabels) /\ Committed(p)
          /\ \A p \in Procs :
                (Ends(p) /\ resp'[p].code = ServerError) => db' = db]_vars

\* A request has failed after writing a notification, and the row is not stored.
C9_Witness ==
    /\ \E p \in Procs : pc[p] = "idle" /\ resp[p].code = ServerError
    /\ \A p \in Procs : tx[p] = EmptyTx
    /\ seq.notifications > Cardinality(notifications)

\* C10: like_post on a post that does not exist, and toggle_follow on a user that
\* does not exist, answer NotFound and leave the store unchanged.
C10_MissingTargetNotFound ==
    [][\A p \in Procs :
          (/\ Ends(p)
           /\ \/ req[p].op = "like_post" /\ MissingPost(req[p].target)
              \/ req[p].op = "toggle_follow" /\ MissingUser(req[p].target)) =>
              (resp'[p].code = NotFound /\ db' = db)]_vars

\* Client p is at the insert of a toggle whose row another call has committed
\* since p looked it up: the uniqueness constraint rejects p's insert.
LostRace(p) ==
    LET key == <<req[p].user_id, req[p].target>> IN
    \/ /\ pc[p] = "tf_insert"
       /\ ~MissingUser(key[1]) /\ ~MissingUser(key[2])
       /\ UniqueViolation(follows, key)
    \/ /\ pc[p] = "lp_insert"
       /\ ~MissingUser(key[1]) /\ ~MissingPost(key[2])
       /\ UniqueViolation(likes, key)

\* C11: a toggle whose insert is rejected by the uniqueness constraint, because
\* an identical concurrent toggle committed first, answers its caller with
\* success and not with an error.
C11_LostRaceSucceeds ==
    [][\A p \in Procs : (LostRace(p) /\ Ends(p)) => resp'[p].code = OK]_vars

\* With this step client p asks for toggle_follow(a, a).
SelfFollowAsked(p) ==
    /\ pc[p] = "idle" /\ opsLeft' < opsLeft
    /\ req'[p].op = "toggle_follow"
    /\ req'[p].user_id # None /\ req'[p].user_id = req'[p].target
    /\ \A q \in Procs \ {p} : pc'[q] = pc[q] /\ req'[q] = req[q] /\ resp'[q] = resp[q]

\* C12: the store never holds two follow rows for one (follower, following)
\* pair, two like rows for one (user, post) pair, or a follow row whose
\* follower is its following; toggle_follow(a, a) is answered 400 and neither
\* opens a transaction nor changes the store.
C12_OneRowPerPair ==
    /\ [](/\ \A k \in DOMAIN follows : follows[k] = 1 /\ k[1] # k[2]
          /\ \A k \in DOMAIN likes : likes[k] = 1
          /\ \A p \in Procs : \A k \in tx[p].ins_follows : k[1] # k[2])
    /\ [][\A p \in Procs :
             SelfFollowAsked(p) =>
                 /\ pc'[p] = "idle" /\ resp'[p].code = BadRequest
                 /\ db' = db /\ tx' = tx /\ conn' = conn]_vars

\* One client has committed the follow of 1 by 2, and the identical insert of
\* the other client, which had found the edge absent, meets the stored row.
C12_Witness ==
    \E p \in Procs : \E q \in Procs \ {p} :
        /\ LostRace(p) /\ pc[p] = "tf_insert"
        /\ pc[q] = "idle" /\ req[q].op = "toggle_follow"
        /\ resp[q].code = OK /\ resp[q].flag
        /\ follows = SetToBag({<<req[p].user_id, req[p].target>>})

UploadOps == {"upload_post", "upload_story"}

\* With this step client p asks for an upload whose file the object store
\* does not take: upload_to_supabase() returns None.
UploadFailed(p) ==
    /\ pc[p] = "idle" /\ opsLeft' < opsLeft
    /\ req'[p].op \in UploadOps
    /\ req'[p].user_id # None /\ req'[p].target # None /\ req'[p].name = ""
    /\ \A q \in Procs \ {p} : pc'[q] = pc[q] /\ req'[q] = req[q] /\ resp'[q] = resp[q]

\* C13: when the upload to the object store fails, upload_post / upload_story
\* answers with a failure and the store is unchanged: no transaction is opened
\* and no post, story or notification row is written, then or later.
C13_UploadFailureWritesNothing ==
    /\ [](\A p \in Procs :
             pc[p] \in {"up_insert", "up_fanout", "up_commit",
                        "us_insert", "us_fanout", "us_commit"} => req[p].name = "url")
    /\ [][\A p \in Procs :
             UploadFailed(p) =>
                 /\ pc'[p] = "idle" /\ resp'[p].code = ServerError
                 /\ db' = db /\ tx' = tx /\ conn' = conn /\ seq' = seq]_vars

\* An upload_post of a stored user has failed at the object store.
C13_Witness ==
    \E p \in Procs :
        /\ pc[p] = "idle" /\ req[p].op = "upload_post"
        /\ req[p].user_id \in UserIdSet /\ req[p].target # None /\ req[p].name = ""
        /\ resp[p].code = ServerError
        /\ seq.posts = Cardinality(posts)

\* the stored stories that viewer v is to be shown
ActiveFollowed(v) == {s \in stories : IsFollowing(v, s.user_id) /\ now < s.expires_at}

\* group g lists the stories in S, each once, the most recent first, each
\* with the users recorded as its viewers
GroupLists(g, S) ==
    /\ Len(g.stories) = Cardinality(S) /\ S # {}
    /\ \A a \in 1 .. Len(g.stories) :
          /\ \E s \in S : s.id = g.stories[a].id /\ s.created_at = g.stories[a].created_at
          /\ g.stories[a].views =
                {u \in UserIdSet : BagIn(<<g.stories[a].id, u>>, story_views)}
          /\ \A b \in 1 .. Len(g.stories) :
                /\ a < b => g.stories[a].created_at >= g.stories[b].created_at
                /\ a # b => g.stories[a].id # g.stories[b].id

\* C14: for every viewer v, get_stories yields one group for each author whom
\* v follows and who has an active story, and no other group (none for v);
\* the group of an author lists exactly that author's active stories, each
\* once, the most recent first, each with the ids of its recorded viewers.
C14_StoriesForViewer ==
    \A v \in UserIdSet :
        LET groups == StoriesForViewer(v)
            active == ActiveFollowed(v)
        IN  /\ {groups[i].user_id : i \in 1 .. Len(groups)} = {s.user_id : s \in active}
            /\ \A i \in 1 .. Len(groups) :
                  /\ groups[i].user_id # v
                  /\ \A j \in 1 .. Len(groups) :
                        groups[i].user_id = groups[j].user_id => i = j
                  /\ GroupLists(groups[i], {s \in active : s.user_id = groups[i].user_id})

\* get_stories has answered user 3 with two groups, one of them with two
\* stories, one of which has a recorded viewer.
C14_Witness ==
    \E p \in Procs :
        /\ pc[p] = "idle" /\ req[p].op = "get_stories" /\ resp[p].code = OK
        /\ resp[p].rows = StoriesForViewer(3)
        /\ Len(resp[p].rows) = 2
        /\ \E i \in 1 .. 2 :
              /\ Len(resp[p].rows[i].stories) = 2
              /\ \E a \in 1 .. 2 : resp[p].rows[i].stories[a].views # {}

\* the notification n is one that mark_notification_read(u, id) is to mark
MarkedBy(n, u, id) == n.user_id = u /\ (id = None \/ n.id = id)

\* C15: mark_notification_read(u, id) sets read on the notification id if its
\* recipient is u, and mark_notification_read(u) on all notifications of u, so
\* that u then has no unread notification; every other notification, those of
\* other recipients among them, stays as it was, and no step of the call
\* before its commit changes a notification.
C15_MarkRead ==
    [][\A p \in Procs :
          /\ Commits(p, {"mr_commit"}) =>
                /\ notifications' =
                      {IF MarkedBy(n, req[p].user_id, req[p].target)
                       THEN [n EXCEPT !.read = TRUE] ELSE n : n \in notifications}
                /\ \A u \in UserArgs :
                      (u = req[p].user_id /\ req[p].target = None) => UnreadCount(u)' = 0
          /\ (req'[p].op = "mark_notification_read" /\ ~Commits(p, {"mr_commit"})
              /\ \A q \in Procs \ {p} : pc'[q] = pc[q]) =>
                notifications' = notifications]_vars

\* User 1 has marked all as read: its two notifications are read, the one of
\* user 2 is not.
C15_Witness ==
    \E p \in Procs :
        /\ pc[p] = "idle" /\ req[p].op = "mark_notification_read" /\ resp[p].code = OK
        /\ Cardinality({n \in notifications : n.user_id = 1}) = 2
        /\ \A n \in notifications : n.read <=> n.user_id = 1
        /\ \E n \in notifications : n.user_id = 2

FeedOps == {"get_feed", "get_explore"}

\* This step belongs to a get_feed or get_explore call of client p: the
\* request, the query and its answer, or the failure of the query.
FeedStep(p) ==
    \/ /\ pc[p] = "idle" /\ opsLeft' < opsLeft /\ req'[p].op \in FeedOps
       /\ \A q \in Procs \ {p} : pc'[q] = pc[q] /\ req'[q] = req[q] /\ resp'[q] = resp[q]
    \/ pc[p] \in {"gf_select", "ge_select"} /\ pc'[p] # pc[p]

\* C16: no step of get_feed or get_explore, whatever its arguments and whether
\* it succeeds or fails, changes a stored user, follow edge, post, story, story
\* view, like, comment or notification (or a sequence, or the object store).
C16_FeedsReadOnly ==
    [][\A p \in Procs :
          FeedStep(p) => db' = db /\ seq' = seq /\ storage' = storage /\ tx' = tx]_vars

\* get_feed has returned two posts while an unread notification is stored.
C16_Witness ==
    \E p \in Procs :
        /\ pc[p] = "idle" /\ req[p].op = "get_feed" /\ resp[p].code = OK
        /\ Len(resp[p].rows) = 2
        /\ \E n \in notifications : ~n.read

\* the 'follow' notifications among ns that tell b of a follow by a
FollowNotificationsIn(ns, a, b) ==
    {n \in ns : n.type = "follow" /\ n.from_user_id = a /\ n.user_id = b}

\* C17: for every pair (a, b), a step that takes the stored edge (a, b) from
\* absent to present adds exactly one 'follow' notification from a to b, and
\* no other step changes their number: the 'follow' notifications from a to b
\* are as many as the committed absent-to-present transitions of the edge.
C17_FollowNotificationCount ==
    /\ [](\A a \in 1 .. MaxUsers, b \in 1 .. MaxUsers :
             IsFollowing(a, b) => FollowNotificationsIn(notifications, a, b) # {})
    /\ [][\A a \in 1 .. MaxUsers, b \in 1 .. MaxUsers :
             Cardinality(FollowNotificationsIn(notifications', a, b)) =
                 Cardinality(FollowNotificationsIn(notifications, a, b))
                 + (IF ~BagIn(<<a, b>>, follows) /\ BagIn(<<a, b>>, follows')
                    THEN 1 ELSE 0)]_vars

\* User 2 has followed user 1 for the second time: two notifications tell of it.
C17_Witness ==
    /\ \A p \in Procs : pc[p] = "idle"
    /\ IsFollowing(2, 1)
    /\ Cardinality(FollowNotificationsIn(notifications, 2, 1)) = 2

\* C18: a client holds one connection while its handler is between get_db()
\* and the end of its finally clause, and none otherwise: every way out of a
\* handler (commit, return inside try, exception) closes the connection, and
\* when all calls are completed no connection is open.
C18_ConnectionReleased ==
    /\ [](\A p \in Procs : conn[p] = IF pc[p] \in {"idle", "off"} THEN 0 ELSE 1)
    /\ [][\A p \in Procs : Ends(p) => conn[p] = 1 /\ conn'[p] = 0]_vars

\* A toggle_follow has failed inside its transaction, after a sign-up that
\* succeeded, and no connection is open.
C18_Witness ==
    \E p \in Procs :
        /\ pc[p] = "idle" /\ req[p].op = "toggle_follow"
        /\ resp[p].code = ServerError
        /\ users # {}
        /\ \A q \in Procs : conn[q] = 0

\* Client p ends a toggle_follow between two stored users, or a like_post of a
\* stored user on a stored post.
ToggleEnds(p) ==
    /\ Ends(p)
    /\ \/ /\ req[p].op = "toggle_follow"
          /\ ~MissingUser(req[p].user_id) /\ ~MissingUser(req[p].target)
       \/ /\ req[p].op = "like_post"
          /\ ~MissingUser(req[p].user_id) /\ ~MissingPost(req[p].target)

\* the table of the toggle p runs, before and after the step
ToggleTable(p) == IF req[p].op = "toggle_follow" THEN follows ELSE likes

ToggleTableAfter(p) == IF req[p].op = "toggle_follow" THEN follows' ELSE likes'

\* C19: with calls running one after the other, every toggle_follow(a, b)
\* between stored users a # b and every like_post on a stored post succeeds,
\* leaves the (actor, target) row present if it was absent when the call
\* began and absent if it was present, and answers true exactly if the row is
\* present after the call.
C19_ToggleFlips ==
    [][\A p \in Procs :
          ToggleEnds(p) =>
              LET key == <<req[p].user_id, req[p].target>> IN
              /\ resp'[p].code = OK
              /\ BagIn(key, ToggleTableAfter(p)) <=> ~loc[p].pre
              /\ resp'[p].flag <=> BagIn(key, ToggleTableAfter(p))
              /\ loc[p].pre <=> BagIn(key, ToggleTable(p))]_vars

\* User 2 has liked post 1 again after unliking it, and was answered true.
C19_Witness ==
    \E p \in Procs :
        /\ pc[p] = "idle" /\ req[p].op = "like_post"
        /\ resp[p].code = OK /\ resp[p].flag
        /\ BagIn(<<2, 1>>, likes)
        /\ Cardinality(LikeNotifications) = 2

\* C20: the sweep of get_stories removes every stored story with
\* now >= expires-at, the one that expires at this very instant included, and
\* no story with now < expires-at.
C20_SweepRemovesExpired ==
    [][\A p \in Procs :
          (pc[p] = "gs_sweep" /\ pc'[p] = "gs_select") =>
              stories' = {s \in stories : now < s.expires_at}]_vars

C22_NotificationsAppendOnly ==
    [][\A n \in notifications :
          /\ Cardinality({m \in notifications' : m.id = n.id}) = 1
          /\ \/ n \in notifications'
             \/ ~n.read /\ [n EXCEPT !.read = TRUE] \in notifications']_vars

\* After a sweep has removed the story of user 1 and a notification has been
\* marked as read: the two notifications of the initial store are still there.
C22_Witness ==
    /\ stories = {}
    /\ \E n \in notifications : n.read
    /\ \E n \in notifications : n.id = 1
    /\ \E n \in notifications : n.id = 2

(***************************************************************************)
(* C23: add_comment on an existing post appends exactly one comment, and   *)
(* creates exactly one 'comment' notification for the post's author when   *)
(* the commenter is not the author, and none when the commenter is.        *)
(***************************************************************************)
AddedComments == comments' \ comments

CommentNotifications == {n \in notifications : n.type = "comment"}

ConcurrentToggles ==
    /\ Len(hist.calls) = 2
    /\ hist.calls[1].a = hist.calls[2].a
    /\ hist.calls[1].b = hist.calls[2].b
    /\ hist.calls[1].pre = hist.calls[2].pre
    /\ hist.calls[1].code = OK /\ hist.calls[2].code = OK

\* C24: two concurrent toggle_follow(a, b) calls that both report success
\* return the values of a serial execution of the two, one true and one false,
\* and leave the edge as it was before them; from the present state they never
\* both return false leaving the edge absent.
C24_TogglesLinearizable ==
    ConcurrentToggles =>
        /\ hist.calls[1].flag # hist.calls[2].flag
        /\ IsFollowing(hist.calls[1].a, hist.calls[1].b) <=> hist.calls[1].pre

====
